---------------------------- MODULE Spec2Model ----------------------------
(***************************************************************************)
(* The HTTP CONNECT tunnel of rust_http_tunnel: the CONNECT codec          *)
(* (src/src/codec.rs), the resolver (src/src/dns.rs) and one tunnel        *)
(* session, tunnel_stream followed by tunnel_relay (src/src/main.rs).      *)
(*                                                                         *)
(* Bytes are the integers 0..255 and a buffer (BytesMut, &[u8], String) is *)
(* a sequence of bytes; a String is held as its UTF-8 bytes.               *)
(***************************************************************************)
EXTENDS Integers, Sequences, FiniteSets

(***************************************************************************)
(* Bounds of the model.                                                    *)
(***************************************************************************)
\* trailing header lines of a generated decoder input
MaxHeaders == 2
\* encode calls into one destination buffer
MaxEncodes == 3
\* bytes one small socket read of the request delivers (a read may also
\* deliver everything the client has sent)
MaxRead == 3
\* bytes each peer sends through an established tunnel
MaxRelay == 2
\* positional arguments on the command line
MaxArgs == 4
\* connections made to the listener
MaxConns == 3

(***************************************************************************)
(* codec.rs: constants.                                                    *)
(***************************************************************************)
MAX_HTTP_CONNECT_SIZE == 1024
\* b"CONNECT "
HTTP_CONNECT_START == <<67, 79, 78, 78, 69, 67, 84, 32>>
\* b" HTTP/1.1"
HTTP_CONNECT_END == <<32, 72, 84, 84, 80, 47, 49, 46, 49>>
\* a slice start one byte short of the prefix
slice_start_short == Len(HTTP_CONNECT_START) - 1
HTTP_CONNECT_SLICE_START == Len(HTTP_CONNECT_START)
\* b"\r\n"
CRLF == <<13, 10>>
\* b" HTTP/1.1\r\n", the needle of decode
HTTP_CONNECT_END_CRLF == HTTP_CONNECT_END \o CRLF

(***************************************************************************)
(* Slices.                                                                 *)
(***************************************************************************)
ends_with(s, t) ==
    /\ Len(s) >= Len(t)
    /\ \A j \in 1..Len(t) : s[Len(s) - Len(t) + j] = t[j]

\* a prefix test that compares the lengths only
starts_with_by_length(s, t) == Len(s) >= Len(t)

starts_with(s, t) ==
    /\ Len(s) >= Len(t)
    /\ \A j \in 1..Len(t) : s[j] = t[j]

\* haystack.windows(needle.len()).position(|window| window == needle):
\* the 0-based index of the first window equal to the needle, if any.
find_subsequence(haystack, needle) ==
    LET hits == {i \in 0..(Len(haystack) - Len(needle)) :
                    \A j \in 1..Len(needle) : haystack[i + j] = needle[j]}
    IN  IF hits = {}
        THEN [some |-> FALSE, idx |-> 0]
        ELSE [some |-> TRUE,
              idx  |-> CHOOSE i \in hits : \A k \in hits : i <= k]

(***************************************************************************)
(* String::from_utf8: the byte sequences that are well-formed UTF-8.       *)
(***************************************************************************)
IsCont(b) == b >= 128 /\ b <= 191

RECURSIVE utf8_valid(_)
utf8_valid(s) ==
    IF s = <<>> THEN TRUE
    ELSE
      LET b == s[1]
          n == Len(s)
          rest(k) == SubSeq(s, k + 1, n)
      IN  IF b <= 127 THEN utf8_valid(rest(1))
          ELSE IF b >= 194 /\ b <= 223
               THEN n >= 2 /\ IsCont(s[2]) /\ utf8_valid(rest(2))
          ELSE IF b >= 224 /\ b <= 239
               THEN /\ n >= 3
                    /\ IsCont(s[2])
                    /\ IsCont(s[3])
                    /\ (b = 224 => s[2] >= 160)
                    /\ (b = 237 => s[2] <= 159)
                    /\ utf8_valid(rest(3))
          ELSE IF b >= 240 /\ b <= 244
               THEN /\ n >= 4
                    /\ IsCont(s[2])
                    /\ IsCont(s[3])
                    /\ IsCont(s[4])
                    /\ (b = 240 => s[2] >= 144)
                    /\ (b = 244 => s[2] <= 143)
                    /\ utf8_valid(rest(4))
          ELSE FALSE

(***************************************************************************)
(* Decoder for HttpCodec.  The result is Result<Option<String>, DecodeError>*)
(* or a panic, together with the buffer as decode leaves it:               *)
(*   kind "None"    Ok(None), not enough data                              *)
(*   kind "Some"    Ok(Some(item))                                         *)
(*   kind "ErrIO"   Err(DecodeError::IO(ErrorKind::InvalidData))           *)
(*   kind "ErrUTF8" Err(DecodeError::UTF8)                                 *)
(*   kind "Panic"   the slice &src[8..idx] with idx < 8                    *)
(***************************************************************************)
DecodeResult(k, item, src) == [kind |-> k, item |-> item, src |-> src]

\* lines 49-69 of decode: what decode does with a terminated buffer
decode_frame(src) ==
    IF Len(src) >= MAX_HTTP_CONNECT_SIZE
    THEN DecodeResult("ErrIO", <<>>, src)
    ELSE IF ~starts_with(src, HTTP_CONNECT_START)
         THEN DecodeResult("ErrIO", <<>>, src)
    ELSE LET found == find_subsequence(src, HTTP_CONNECT_END_CRLF)
         IN  IF ~found.some THEN DecodeResult("ErrIO", <<>>, src)
             ELSE IF found.idx < HTTP_CONNECT_SLICE_START
                  THEN DecodeResult("Panic", <<>>, src)
             ELSE LET url_ == SubSeq(src, HTTP_CONNECT_SLICE_START + 1,
                                     found.idx)
                  IN  IF utf8_valid(url_)
                      THEN DecodeResult("Some", url_, src)
                      ELSE DecodeResult("ErrUTF8", <<>>, src)

\* a decode that drops what is buffered when the request is incomplete
decode_clearing(src) ==
    IF ~ends_with(src, CRLF)
    THEN DecodeResult("None", <<>>, <<>>)
    ELSE decode_frame(src)

decode(src) ==
    IF ~ends_with(src, CRLF)
    THEN DecodeResult("None", <<>>, src)
    ELSE decode_frame(src)

(***************************************************************************)
(* Encoder<TunnelResult> for HttpCodec.                                    *)
(***************************************************************************)
TunnelResult == {"Ok", "BadRequest", "Forbidden", "Timeout", "ServerError"}

\* "HTTP/1.1 "
HttpVersionSp == <<72, 84, 84, 80, 47, 49, 46, 49, 32>>
\* "OK"
MsgOk == <<79, 75>>
\* "BAD_REQUEST"
MsgBadRequest == <<66, 65, 68, 95, 82, 69, 81, 85, 69, 83, 84>>
\* "Timeout"
MsgTimeout == <<84, 105, 109, 101, 111, 117, 116>>
\* "SERVER_ERROR"
MsgServerError == <<83, 69, 82, 86, 69, 82, 95, 69, 82, 82, 79, 82>>

\* Display of a u32: its decimal digits in ASCII
RECURSIVE fmt_u32(_)
fmt_u32(n) ==
    IF n < 10 THEN <<48 + n>>
    ELSE Append(fmt_u32(n \div 10), 48 + (n % 10))

\* the match of encode: (code, message) of a TunnelResult
status_of(tunnel_result) ==
    CASE tunnel_result = "Ok"          -> [code |-> 200, message |-> MsgOk]
      [] tunnel_result = "BadRequest"  -> [code |-> 400, message |-> MsgBadRequest]
      [] tunnel_result = "Forbidden"   -> [code |-> 408, message |-> MsgTimeout]
      [] tunnel_result = "ServerError" -> [code |-> 500, message |-> MsgServerError]
      [] OTHER                         -> [code |-> 400, message |-> MsgBadRequest]

\* format_args!("HTTP/1.1 {} {}\r\n\r\n", code, message)
status_line(code, message) ==
    HttpVersionSp \o fmt_u32(code) \o <<32>> \o message \o CRLF \o CRLF

\* dst.write_fmt(...): the status line is appended to dst
encode(tunnel_result, dst) ==
    LET st == status_of(tunnel_result)
    IN  dst \o status_line(st.code, st.message)

(***************************************************************************)
(* State.                                                                  *)
(*                                                                         *)
(* The codec called on its own (codec.rs, as its tests call it):           *)
(*   src, item     decode's buffer and the result of the call made on it   *)
(*   shape         the parts src was put together from                     *)
(*   dst, encodes  encode's buffer and the outcomes encoded into it        *)
(*                                                                         *)
(* One tunnel session (main.rs, tunnel_stream then tunnel_relay):          *)
(*   pc            the session's position                                  *)
(*   req           the request the client sends (an index of Requests)     *)
(*   nread         bytes of the client's stream the proxy has read         *)
(*   clientEOF     the client has closed its sending side                  *)
(*   buffer        the read buffer of the FramedRead                       *)
(*   frame         the result of the FramedRead's last decode call         *)
(*   url           the decoded Connect Target                              *)
(*   addr          the resolved address                                    *)
(*   conn          how the outbound connect ended                          *)
(*   stream        the outbound stream                                     *)
(*   response_buffer  the encoded response, as write_buf leaves it         *)
(*   clientRecv    bytes written to the client                             *)
(*   destRecv      bytes written to the destination                        *)
(*   dread         bytes of the destination's data the proxy has read      *)
(*   destEOF       the destination has closed its sending side             *)
(*   r1, r2        the copy tasks client->destination, destination->client *)
(*   r1buf, r2buf  bytes each copy task has read and not yet written       *)
(*   cut           bytes of the client's stream the FramedRead consumed    *)
(*   trace         the steps the session has completed, in order           *)
(* the process (main.rs, tunnel and app_main):                             *)
(*   argc          positional arguments on the command line                *)
(*   args_unicode  the arguments env::args() yields are valid Unicode      *)
(*   arg_len       arg.len(), after skip(1).take(3)                        *)
(*   enable_tls    the mode the match on arg.len() selects                 *)
(*   main_pc       where the main task is                                  *)
(*   listener      the listening socket                                    *)
(*   conns         for each connection, how far its session has got        *)
(*   exit_by       what ended the process                                  *)
(***************************************************************************)
VARIABLES src, item, shape, dst, encodes,
          pc, req, nread, clientEOF, buffer, frame, url, addr, conn, stream,
          response_buffer, clientRecv, destRecv, dread, destEOF, r1, r2, cut,
          trace, r1buf, r2buf,
          argc, args_unicode, arg_len, enable_tls, main_pc, listener, conns,
          exit_by

codecVars == <<src, item, shape, dst, encodes>>
sessionVars == <<pc, req, nread, clientEOF, buffer, frame, url, addr, conn,
                 stream, response_buffer, clientRecv, destRecv, dread,
                 destEOF, r1, r2, cut, trace, r1buf, r2buf>>
relayBufs == <<r1buf, r2buf>>
serverVars == <<argc, args_unicode, arg_len, enable_tls, main_pc, listener,
                conns, exit_by>>
vars == <<src, item, shape, dst, encodes,
          pc, req, nread, clientEOF, buffer, frame, url, addr, conn, stream,
          response_buffer, clientRecv, destRecv, dread, destEOF, r1, r2, cut,
          trace, r1buf, r2buf,
          argc, args_unicode, arg_len, enable_tls, main_pc, listener, conns,
          exit_by>>

NotCalled == DecodeResult("NotCalled", <<>>, <<>>)
\* io::Result<SocketAddr>: Ok(val), or Err(val)
IoOk(v) == [ok |-> TRUE, val |-> v]
IoErr(e) == [ok |-> FALSE, val |-> e]
NotResolved == IoErr("NotCalled")
NoShape == [prefix |-> <<>>, target |-> <<>>, ending |-> <<>>,
            headers |-> <<>>, tail |-> <<>>]

(***************************************************************************)
(* Byte strings the inputs are put together from.                          *)
(***************************************************************************)
Fill(n) == [i \in 1..n |-> 65]
\* "a:1"
HostPort == <<97, 58, 49>>
\* "e-acute:1", a target with a two-byte UTF-8 character
HostPortUtf8 == <<195, 169, 58, 49>>
\* a target that is not UTF-8
HostPortBad == <<255, 58, 49>>
\* "a:65536", a target whose port is not a u16
HostBadPort == <<97, 58, 54, 53, 53, 51, 54>>
\* "a\0:1", a target whose host holds a NUL byte
HostNul == <<97, 0, 58, 49>>
\* "HTTP/1.1"
HttpVersion == <<72, 84, 84, 80, 47, 49, 46, 49>>
\* "CONNEC "
ConnecSp == <<67, 79, 78, 78, 69, 67, 32>>
\* " HTTP/1.0\r\n"
EndHttp10 == <<32, 72, 84, 84, 80, 47, 49, 46, 48, 13, 10>>
\* "H: x"
HeaderText == <<72, 58, 32, 120>>
\* "CONNECT a:1 HTTP/1.1\r\n"
RequestLine == HTTP_CONNECT_START \o HostPort \o HTTP_CONNECT_END_CRLF
\* a header line that brings RequestLine to one byte below the size bound
\* "X: "
HeaderName == <<88, 58, 32>>
BigHeader ==
    HeaderName
      \o Fill(MAX_HTTP_CONNECT_SIZE - 1 - Len(RequestLine)
                 - Len(HeaderName) - Len(CRLF))
      \o CRLF

RECURSIVE Flatten(_)
Flatten(ss) == IF ss = <<>> THEN <<>> ELSE ss[1] \o Flatten(Tail(ss))

SeqsUpTo(S, n) == UNION {[1..k -> S] : k \in 0..n}

Prefixes == {HTTP_CONNECT_START, ConnecSp, <<>>}
Targets == {HostPort, HostPortUtf8, HostPortBad, HttpVersion, <<>>}
Endings == {HTTP_CONNECT_END_CRLF, HTTP_CONNECT_END, CRLF, EndHttp10}
HeaderLines == {HeaderText \o CRLF, CRLF, BigHeader}
Tails == {<<>>, HeaderText, Fill(MAX_HTTP_CONNECT_SIZE)}

Shapes == [prefix : Prefixes, target : Targets, ending : Endings,
           headers : SeqsUpTo(HeaderLines, MaxHeaders), tail : Tails]

BytesOf(sh) ==
    sh.prefix \o sh.target \o sh.ending \o Flatten(sh.headers) \o sh.tail

(***************************************************************************)
(* The session at rest, for the specifications of the codec alone.         *)
(***************************************************************************)
SessionIdle ==
    /\ pc = "idle"
    /\ req = 1
    /\ nread = 0
    /\ clientEOF = FALSE
    /\ buffer = <<>>
    /\ frame = NotCalled
    /\ url = <<>>
    /\ addr = NotResolved
    /\ conn = "none"
    /\ stream = "none"
    /\ response_buffer = <<>>
    /\ clientRecv = <<>>
    /\ destRecv = <<>>
    /\ dread = 0
    /\ destEOF = FALSE
    /\ r1 = "none"
    /\ r2 = "none"
    /\ cut = 0
    /\ trace = <<>>
    /\ r1buf = <<>>
    /\ r2buf = <<>>

CodecIdle ==
    /\ src = <<>>
    /\ item = NotCalled
    /\ shape = NoShape
    /\ dst = <<>>
    /\ encodes = <<>>

(***************************************************************************)
(* The process at rest, for the specifications of one session and of the   *)
(* codec: started in plain mode with one argument, and listening.          *)
(***************************************************************************)
Conns == 1..MaxConns
NoConns == [i \in Conns |-> "none"]

ServerIdle ==
    /\ argc = 1
    /\ args_unicode = TRUE
    /\ arg_len = 1
    /\ enable_tls = FALSE
    /\ main_pc = "accepting"
    /\ listener = "bound"
    /\ conns = NoConns
    /\ exit_by = "none"

(***************************************************************************)
(* SpecDecode: decode called once on each generated buffer.                *)
(***************************************************************************)
InitDecode ==
    /\ shape \in Shapes
    /\ src = BytesOf(shape)
    /\ item = NotCalled
    /\ dst = <<>>
    /\ encodes = <<>>
    /\ SessionIdle
    /\ ServerIdle

\* codec.decode(&mut buffer)
Decode ==
    /\ item = NotCalled
    /\ item' = decode(src)
    /\ src' = decode(src).src
    /\ UNCHANGED <<shape, dst, encodes>>
    /\ UNCHANGED sessionVars
    /\ UNCHANGED serverVars

NextDecode == Decode

SpecDecode == InitDecode /\ [][NextDecode]_vars

(***************************************************************************)
(* SpecEncode: encode called up to MaxEncodes times on one buffer.         *)
(***************************************************************************)
InitEncode ==
    /\ CodecIdle
    /\ SessionIdle
    /\ ServerIdle

\* codec.encode(tunnel_result, &mut buffer)
Encode(tunnel_result) ==
    /\ Len(encodes) < MaxEncodes
    /\ dst' = encode(tunnel_result, dst)
    /\ encodes' = Append(encodes, tunnel_result)
    /\ UNCHANGED <<src, item, shape>>
    /\ UNCHANGED sessionVars
    /\ UNCHANGED serverVars

NextEncode == \E t \in TunnelResult : Encode(t)

SpecEncode == InitEncode /\ [][NextEncode]_vars

(***************************************************************************)
(* dns.rs: the resolver.  tokio::net::lookup_host is the environment: it   *)
(* fails (a target without a port is InvalidInput) or yields candidates.   *)
(***************************************************************************)
\* u16::MAX
U16_MAX == 65535

IsDigit(b) == b >= 48 /\ b <= 57

\* the decimal value of a sequence of digits
RECURSIVE digits_value(_)
digits_value(ds) ==
    IF ds = <<>> THEN 0
    ELSE 10 * digits_value(SubSeq(ds, 1, Len(ds) - 1)) + (ds[Len(ds)] - 48)

\* port_str.parse::<u16>().is_ok(): an optional '+', then one digit or
\* more, of a value that fits in 16 bits
parses_as_u16(port_str) ==
    LET ds == IF port_str # <<>> /\ port_str[1] = 43
              THEN Tail(port_str) ELSE port_str
    IN  /\ ds # <<>>
        /\ \A i \in 1..Len(ds) : IsDigit(ds[i])
        /\ digits_value(ds) <= U16_MAX

\* <str as ToSocketAddrs>: target.rsplit_once(':') gives a port that parses
\* as u16; anything else is InvalidInput, without a lookup
has_port(target) ==
    LET colons == {i \in 1..Len(target) : target[i] = 58}
    IN  /\ colons # {}
        /\ LET last == CHOOSE i \in colons : \A j \in colons : j <= i
           IN  parses_as_u16(SubSeq(target, last + 1, Len(target)))

\* the host is made a C string for getaddrinfo: a NUL byte in it is
\* InvalidInput, without a lookup
has_nul(target) == \E i \in 1..Len(target) : target[i] = 0

LookupOutcomes(target) ==
    IF ~has_port(target) \/ has_nul(target)
    THEN {IoErr("InvalidInput")}
    ELSE {IoErr("Uncategorized"), IoOk(<<>>), IoOk(<<"ip1">>),
          IoOk(<<"ip2", "ip1">>)}

\* SimpleDnsResolver::resolve(target) -> io::Result<Vec<SocketAddr>>
resolve_all(lookup) ==
    IF ~lookup.ok THEN lookup
    ELSE IF lookup.val = <<>> THEN IoErr("AddrNotAvailable")
    ELSE lookup

\* <SimpleDnsResolver as DnsResolver>::resolve
resolve(lookup) ==
    LET resolved == resolve_all(lookup)
    IN  IF ~resolved.ok THEN resolved
        ELSE IF Len(resolved.val) >= 1 THEN IoOk(resolved.val[1])
        ELSE IoErr("InvalidData")

(***************************************************************************)
(* The peers of a session.                                                 *)
(***************************************************************************)
\* "HTTP/1.1 200 OK\r\n\r\n", the line a client waits for
Line200 == <<72, 84, 84, 80, 47, 49, 46, 49, 32, 50, 48, 48, 32, 79, 75,
             13, 10, 13, 10>>

Requests ==
    << RequestLine,
       RequestLine \o HeaderText \o CRLF \o CRLF,
       ConnecSp \o HostPort \o HTTP_CONNECT_END_CRLF,
       HTTP_CONNECT_START \o HostPort \o CRLF,
       HTTP_CONNECT_START \o HostPortBad \o HTTP_CONNECT_END_CRLF,
       HTTP_CONNECT_START \o <<97>> \o HTTP_CONNECT_END_CRLF,
       HTTP_CONNECT_START \o HostPort \o HTTP_CONNECT_END,
       HTTP_CONNECT_START
         \o Fill(MAX_HTTP_CONNECT_SIZE - Len(HTTP_CONNECT_START)
                   - Len(HTTP_CONNECT_END_CRLF))
         \o HTTP_CONNECT_END_CRLF,
       HTTP_CONNECT_START \o HttpVersion \o CRLF,
       Fill(MAX_HTTP_CONNECT_SIZE + 2),
       HTTP_CONNECT_START \o HostBadPort \o HTTP_CONNECT_END_CRLF,
       HTTP_CONNECT_START \o HostNul \o HTTP_CONNECT_END_CRLF >>

\* what the client sends once it holds the whole 200 line
ClientPayload == [i \in 1..MaxRelay |-> 100 + i]
\* what the destination sends once connected
DestData == [i \in 1..MaxRelay |-> 200 + i]

\* the client's stream so far: its request, then its payload
ClientSent ==
    Requests[req]
      \o (IF starts_with(clientRecv, Line200) THEN ClientPayload ELSE <<>>)

ClientAvail == IF clientEOF THEN 0 ELSE Len(ClientSent) - nread
DestAvail == IF destEOF \/ stream # "open" THEN 0 ELSE Len(DestData) - dread

\* the sizes of one read when avail bytes can be read
ReadSizes(avail) == {n \in (1..MaxRead) \cup {avail} : 1 <= n /\ n <= avail}

(***************************************************************************)
(* Spec: one session.                                                      *)
(***************************************************************************)
Init ==
    /\ CodecIdle
    /\ ServerIdle
    /\ pc = "awaiting"
    /\ req \in 1..Len(Requests)
    /\ nread = 0
    /\ clientEOF = FALSE
    /\ buffer = <<>>
    /\ frame = NotCalled
    /\ url = <<>>
    /\ addr = NotResolved
    /\ conn = "none"
    /\ stream = "none"
    /\ response_buffer = <<>>
    /\ clientRecv = <<>>
    /\ destRecv = <<>>
    /\ dread = 0
    /\ destEOF = FALSE
    /\ r1 = "none"
    /\ r2 = "none"
    /\ cut = 0
    /\ trace = <<>>
    /\ r1buf = <<>>
    /\ r2buf = <<>>

\* tunnel_stream, `if let Ok(url_) = fr.next().await.ok_or(..)?`: what the
\* session does with the result d of a decode call
OnFrame(d) ==
    /\ frame' = DecodeResult(d.kind, d.item, <<>>)
    /\ IF d.kind = "None"
       THEN /\ buffer' = d.src
            /\ UNCHANGED <<pc, url, cut, trace>>
       ELSE IF d.kind = "Some"
       THEN /\ buffer' = d.src
            /\ url' = d.item
            /\ cut' = nread'
            /\ pc' = "resolving"
            /\ trace' = Append(trace, "decode")
       ELSE /\ buffer' = <<>>
            /\ pc' = IF d.kind = "Panic" THEN "panicked" ELSE "aborted"
            /\ UNCHANGED <<url, cut, trace>>

\* FramedRead::poll_next: a read of n bytes into the buffer, then decode
FrRead(n) ==
    /\ pc = "awaiting"
    /\ n \in ReadSizes(ClientAvail)
    /\ nread' = nread + n
    /\ OnFrame(decode(buffer \o SubSeq(ClientSent, nread + 1, nread + n)))
    /\ UNCHANGED <<req, clientEOF, addr, conn, stream, response_buffer,
                   clientRecv, destRecv, dread, destEOF, r1, r2>>
    /\ UNCHANGED relayBufs
    /\ UNCHANGED codecVars
    /\ UNCHANGED serverVars

\* FramedRead::poll_next at end of stream: decode_eof is decode, and then
\* None for an empty buffer ("Cannot read frame") or an error for bytes
\* remaining on the stream
FrEof ==
    /\ pc = "awaiting"
    /\ clientEOF
    /\ LET d == decode(buffer)
       IN  IF d.kind = "None"
           THEN /\ frame' = DecodeResult("None", <<>>, <<>>)
                /\ buffer' = <<>>
                /\ pc' = "aborted"
                /\ UNCHANGED <<url, cut, trace>>
           ELSE OnFrame(d)
    /\ UNCHANGED <<req, nread, clientEOF, addr, conn, stream,
                   response_buffer, clientRecv, destRecv, dread, destEOF,
                   r1, r2>>
    /\ UNCHANGED relayBufs
    /\ UNCHANGED codecVars
    /\ UNCHANGED serverVars

\* a session that answers a failed resolve with the ServerError line
ResolveAnswering(lookup) ==
    /\ pc = "resolving"
    /\ lookup \in LookupOutcomes(url)
    /\ addr' = resolve(lookup)
    /\ buffer' = <<>>
    /\ IF resolve(lookup).ok
       THEN /\ pc' = "connecting"
            /\ trace' = Append(trace, "resolve")
            /\ UNCHANGED clientRecv
       ELSE /\ pc' = "aborted"
            /\ clientRecv' = encode("ServerError", <<>>)
            /\ UNCHANGED trace
    /\ UNCHANGED <<req, nread, clientEOF, frame, url, conn, stream,
                   response_buffer, destRecv, dread, destEOF, r1, r2, cut>>
    /\ UNCHANGED relayBufs
    /\ UNCHANGED codecVars
    /\ UNCHANGED serverVars

\* resolver.resolve(&url_).await?, then fr.into_inner() and the spawn of
\* tunnel_relay
Resolve(lookup) ==
    /\ pc = "resolving"
    /\ lookup \in LookupOutcomes(url)
    /\ addr' = resolve(lookup)
    /\ buffer' = <<>>
    /\ IF resolve(lookup).ok
       THEN /\ pc' = "connecting"
            /\ trace' = Append(trace, "resolve")
       ELSE /\ pc' = "aborted"
            /\ UNCHANGED trace
    /\ UNCHANGED <<req, nread, clientEOF, frame, url, conn, stream,
                   response_buffer, clientRecv, destRecv, dread, destEOF,
                   r1, r2, cut>>
    /\ UNCHANGED relayBufs
    /\ UNCHANGED codecVars
    /\ UNCHANGED serverVars

\* timeout(PROXY_CONNECT_TARGET_TIMEOUT, TcpStream::connect(addr)).await:
\* Ok(Ok(stream)), Ok(Err(e)) or Err(elapsed)
ConnectOutcomes == {"Connected", "ConnectErr", "Elapsed"}

\* a connect that is tried again after a connect error
ConnectRetrying(outcome) ==
    /\ pc = "connecting"
    /\ outcome \in ConnectOutcomes
    /\ conn' = outcome
    /\ stream' = IF outcome = "Connected" THEN "open" ELSE "none"
    /\ pc' = IF outcome = "ConnectErr" THEN "connecting" ELSE "responding"
    /\ trace' = IF outcome = "ConnectErr" THEN trace
                ELSE Append(trace, "connect")
    /\ UNCHANGED <<req, nread, clientEOF, buffer, frame, url, addr,
                   response_buffer, clientRecv, destRecv, dread, destEOF,
                   r1, r2, cut>>
    /\ UNCHANGED relayBufs
    /\ UNCHANGED codecVars
    /\ UNCHANGED serverVars

Connect(outcome) ==
    /\ pc = "connecting"
    /\ outcome \in ConnectOutcomes
    /\ conn' = outcome
    /\ stream' = IF outcome = "Connected" THEN "open" ELSE "none"
    /\ pc' = "responding"
    /\ trace' = Append(trace, "connect")
    /\ UNCHANGED <<req, nread, clientEOF, buffer, frame, url, addr,
                   response_buffer, clientRecv, destRecv, dread, destEOF,
                   r1, r2, cut>>
    /\ UNCHANGED relayBufs
    /\ UNCHANGED codecVars
    /\ UNCHANGED serverVars

\* the TunnelResult each arm of the match encodes
response_for(outcome) ==
    CASE outcome = "Connected"  -> "Ok"
      [] outcome = "ConnectErr" -> "Timeout"
      [] outcome = "Elapsed"    -> "BadRequest"

\* every arm of the match going on to the relay
after_response_relaying(outcome) == "writable"

\* where each arm of the match goes once its response is written
after_response(outcome) ==
    IF outcome = "Connected" THEN "writable" ELSE "closed"

\* codec.encode(.., &mut response_buffer); writer.write_buf(..).await?
\* One write: the writer fails (w = 0, the `?` returns the error), or takes
\* the first w bytes and the cursor of the buffer advances by w.
WriteOutcomes(buf) == 0..Len(buf)

Respond(w) ==
    /\ pc = "responding"
    /\ LET encoded == encode(response_for(conn), response_buffer)
       IN  /\ w \in WriteOutcomes(encoded)
           /\ IF w = 0
              THEN /\ response_buffer' = encoded
                   /\ pc' = "aborted"
                   /\ stream' = IF stream = "open" THEN "closed" ELSE stream
                   /\ UNCHANGED <<clientRecv, trace>>
              ELSE /\ clientRecv' = clientRecv \o SubSeq(encoded, 1, w)
                   /\ response_buffer' = SubSeq(encoded, w + 1, Len(encoded))
                   /\ pc' = after_response(conn)
                   /\ trace' = Append(trace, "respond")
                   /\ UNCHANGED stream
    /\ UNCHANGED <<req, nread, clientEOF, buffer, frame, url, addr, conn,
                   destRecv, dread, destEOF, r1, r2, cut>>
    /\ UNCHANGED relayBufs
    /\ UNCHANGED codecVars
    /\ UNCHANGED serverVars

\* the two spawns made before the response is written
StartRelayEarly(ready) ==
    /\ pc \in {"responding", "writable"}
    /\ conn = "Connected"
    /\ ready \in BOOLEAN
    /\ IF ready
       THEN /\ r1' = "running"
            /\ r2' = "running"
            /\ pc' = "relaying"
            /\ trace' = Append(trace, "relay")
            /\ UNCHANGED stream
       ELSE /\ pc' = "aborted"
            /\ stream' = "closed"
            /\ UNCHANGED <<r1, r2, trace>>
    /\ UNCHANGED <<req, nread, clientEOF, buffer, frame, url, addr, conn,
                   response_buffer, clientRecv, destRecv, dread, destEOF,
                   cut>>
    /\ UNCHANGED relayBufs
    /\ UNCHANGED codecVars
    /\ UNCHANGED serverVars

\* stream.writable().await?, then into_split and the two spawns
StartRelay(ready) ==
    /\ pc = "writable"
    /\ ready \in BOOLEAN
    /\ IF ready
       THEN /\ r1' = "running"
            /\ r2' = "running"
            /\ pc' = "relaying"
            /\ trace' = Append(trace, "relay")
            /\ UNCHANGED stream
       ELSE /\ pc' = "aborted"
            /\ stream' = "closed"
            /\ UNCHANGED <<r1, r2, trace>>
    /\ UNCHANGED <<req, nread, clientEOF, buffer, frame, url, addr, conn,
                   response_buffer, clientRecv, destRecv, dread, destEOF,
                   cut>>
    /\ UNCHANGED relayBufs
    /\ UNCHANGED codecVars
    /\ UNCHANGED serverVars

Ended(r) == r \in {"done", "failed"}

\* the sizes of one write when the task holds buf
WriteSizes(buf) == ReadSizes(Len(buf))

\* a copy that loses the first byte of every chunk it reads
R1ReadLossy(n) ==
    /\ r1 = "running"
    /\ n \in ReadSizes(ClientAvail)
    /\ nread' = nread + n
    /\ r1buf' = r1buf \o SubSeq(ClientSent, nread + 2, nread + n)
    /\ UNCHANGED <<pc, req, clientEOF, buffer, frame, url, addr, conn, stream,
                   response_buffer, clientRecv, destRecv, dread, destEOF,
                   r1, r2, cut, trace, r2buf>>
    /\ UNCHANGED codecVars
    /\ UNCHANGED serverVars

\* r1, tokio::io::copy(&mut reader, &mut stream_writer): one read of n
\* bytes from the client into the task's buffer; the task reads on while
\* a write is pending
R1Read(n) ==
    /\ r1 = "running"
    /\ n \in ReadSizes(ClientAvail)
    /\ nread' = nread + n
    /\ r1buf' = r1buf \o SubSeq(ClientSent, nread + 1, nread + n)
    /\ UNCHANGED <<pc, req, clientEOF, buffer, frame, url, addr, conn, stream,
                   response_buffer, clientRecv, destRecv, dread, destEOF,
                   r1, r2, cut, trace, r2buf>>
    /\ UNCHANGED codecVars
    /\ UNCHANGED serverVars

\* r1: one write to the destination, which takes the first n bytes of the
\* task's buffer
R1Write(n) ==
    /\ r1 = "running"
    /\ n \in WriteSizes(r1buf)
    /\ destRecv' = destRecv \o SubSeq(r1buf, 1, n)
    /\ r1buf' = SubSeq(r1buf, n + 1, Len(r1buf))
    /\ UNCHANGED <<pc, req, nread, clientEOF, buffer, frame, url, addr, conn,
                   stream, response_buffer, clientRecv, dread, destEOF,
                   r1, r2, cut, trace, r2buf>>
    /\ UNCHANGED codecVars
    /\ UNCHANGED serverVars

\* r1 completing and taking the other copy task down with it
R1EndCancelling(how) ==
    /\ r1 = "running"
    /\ how \in {"done", "failed"}
    /\ how = "done" => clientEOF /\ r1buf = <<>>
    /\ r1' = how
    /\ r2' = IF r2 = "running" THEN "failed" ELSE r2
    /\ stream' = "closed"
    /\ UNCHANGED <<pc, req, nread, clientEOF, buffer, frame, url, addr, conn,
                   response_buffer, clientRecv, destRecv, dread, destEOF,
                   cut, trace, r1buf, r2buf>>
    /\ UNCHANGED codecVars
    /\ UNCHANGED serverVars

\* r1 completes: its reader is at EOF and everything read is written, or a
\* read or a write fails (what was read and not written is lost)
R1End(how) ==
    /\ r1 = "running"
    /\ how \in {"done", "failed"}
    /\ how = "done" => clientEOF /\ r1buf = <<>>
    /\ r1' = how
    /\ stream' = IF Ended(r2) THEN "closed" ELSE stream
    /\ UNCHANGED <<pc, req, nread, clientEOF, buffer, frame, url, addr, conn,
                   response_buffer, clientRecv, destRecv, dread, destEOF, r2,
                   cut, trace, r1buf, r2buf>>
    /\ UNCHANGED codecVars
    /\ UNCHANGED serverVars

\* r2, tokio::io::copy(&mut stream_reader, &mut writer): one read of n
\* bytes from the destination into the task's buffer
R2Read(n) ==
    /\ r2 = "running"
    /\ n \in ReadSizes(DestAvail)
    /\ dread' = dread + n
    /\ r2buf' = r2buf \o SubSeq(DestData, dread + 1, dread + n)
    /\ UNCHANGED <<pc, req, nread, clientEOF, buffer, frame, url, addr, conn,
                   stream, response_buffer, clientRecv, destRecv, destEOF,
                   r1, r2, cut, trace, r1buf>>
    /\ UNCHANGED codecVars
    /\ UNCHANGED serverVars

\* r2: one write to the client, which takes the first n bytes of the task's
\* buffer
R2Write(n) ==
    /\ r2 = "running"
    /\ n \in WriteSizes(r2buf)
    /\ clientRecv' = clientRecv \o SubSeq(r2buf, 1, n)
    /\ r2buf' = SubSeq(r2buf, n + 1, Len(r2buf))
    /\ UNCHANGED <<pc, req, nread, clientEOF, buffer, frame, url, addr, conn,
                   stream, response_buffer, destRecv, dread, destEOF,
                   r1, r2, cut, trace, r1buf>>
    /\ UNCHANGED codecVars
    /\ UNCHANGED serverVars

\* r2 completes: its reader is at EOF and everything read is written, or a
\* read or a write fails
R2End(how) ==
    /\ r2 = "running"
    /\ how \in {"done", "failed"}
    /\ how = "done" => destEOF /\ r2buf = <<>>
    /\ r2' = how
    /\ stream' = IF Ended(r1) THEN "closed" ELSE stream
    /\ UNCHANGED <<pc, req, nread, clientEOF, buffer, frame, url, addr, conn,
                   response_buffer, clientRecv, destRecv, dread, destEOF, r1,
                   cut, trace, r1buf, r2buf>>
    /\ UNCHANGED codecVars
    /\ UNCHANGED serverVars

Running == pc \in {"awaiting", "resolving", "connecting", "responding",
                   "writable", "relaying"}

\* the client closes its sending side: nothing it has not sent yet arrives
ClientClose ==
    /\ Running
    /\ ~clientEOF
    /\ clientEOF' = TRUE
    /\ UNCHANGED <<pc, req, nread, buffer, frame, url, addr, conn, stream,
                   response_buffer, clientRecv, destRecv, dread, destEOF,
                   r1, r2, cut, trace>>
    /\ UNCHANGED relayBufs
    /\ UNCHANGED codecVars
    /\ UNCHANGED serverVars

\* the destination closes its sending side
DestClose ==
    /\ stream = "open"
    /\ ~destEOF
    /\ destEOF' = TRUE
    /\ UNCHANGED <<pc, req, nread, clientEOF, buffer, frame, url, addr, conn,
                   stream, response_buffer, clientRecv, destRecv, dread,
                   r1, r2, cut, trace>>
    /\ UNCHANGED relayBufs
    /\ UNCHANGED codecVars
    /\ UNCHANGED serverVars

Next ==
    \/ \E n \in ReadSizes(ClientAvail) : FrRead(n)
    \/ FrEof
    \/ \E lookup \in LookupOutcomes(url) : Resolve(lookup)
    \/ \E outcome \in ConnectOutcomes : Connect(outcome)
    \/ \E w \in WriteOutcomes(encode("ServerError", <<>>)) : Respond(w)
    \/ \E ready \in BOOLEAN : StartRelay(ready)
    \/ \E n \in ReadSizes(ClientAvail) : R1Read(n)
    \/ \E n \in WriteSizes(r1buf) : R1Write(n)
    \/ \E how \in {"done", "failed"} : R1End(how)
    \/ \E n \in ReadSizes(DestAvail) : R2Read(n)
    \/ \E n \in WriteSizes(r2buf) : R2Write(n)
    \/ \E how \in {"done", "failed"} : R2End(how)
    \/ ClientClose
    \/ DestClose

Spec == Init /\ [][Next]_vars

(***************************************************************************)
(* SpecLive: the session under the scheduling of tunnel_relay.  The        *)
(* connect is wrapped in timeout(PROXY_CONNECT_TARGET_TIMEOUT, ..), which  *)
(* completes at the deadline at the latest, and the arm of the match then  *)
(* encodes and calls write_buf without another wait in between; the        *)
(* spawned task is polled whenever it can go on.                           *)
(***************************************************************************)
SpecLive ==
    /\ Spec
    /\ WF_vars(\E outcome \in ConnectOutcomes : Connect(outcome))
    /\ WF_vars(\E w \in WriteOutcomes(encode("ServerError", <<>>)) : Respond(w))

(***************************************************************************)
(* SpecServer: the process, from its command line to its exit.  A          *)
(* connection is "none" until accepted, "accepted" while the accept loop   *)
(* prepares it, "running" once its session is spawned (tunnel_stream, then *)
(* tunnel_relay and the copy tasks), and ends "completed", "failed" or,    *)
(* when the runtime is dropped under it, "cancelled"; a socket the accept  *)
(* loop still holds when tunnel() is dropped is "dropped".                 *)
(***************************************************************************)
InitServer ==
    /\ CodecIdle
    /\ SessionIdle
    /\ argc \in 0..MaxArgs
    /\ args_unicode \in BOOLEAN
    /\ argc = 0 => args_unicode
    /\ arg_len = 0
    /\ enable_tls = FALSE
    /\ main_pc = "start"
    /\ listener = "none"
    /\ conns = NoConns
    /\ exit_by = "none"

\* env::args().skip(1).take(3).collect()
take(n, k) == IF n <= k THEN n ELSE k

\* tunnel() ends (it returns an error, is dropped by the select!, or
\* panics): the listener and the socket the loop holds are dropped, and
\* app_main returns to main; the spawned tasks run on
Exit(cause) ==
    /\ main_pc' = "returned"
    /\ exit_by' = cause
    /\ listener' = IF listener = "bound" THEN "closed" ELSE listener
    /\ conns' = [i \in Conns |->
                   IF conns[i] = "accepted" THEN "dropped" ELSE conns[i]]

\* main ends: rt is dropped, and with it every task that has not completed
RuntimeDrop ==
    /\ main_pc = "returned"
    /\ main_pc' = "exited"
    /\ conns' = [i \in Conns |->
                   IF conns[i] = "running" THEN "cancelled" ELSE conns[i]]
    /\ UNCHANGED <<argc, args_unicode, arg_len, enable_tls, listener, exit_by>>
    /\ UNCHANGED <<codecVars, sessionVars>>

\* tunnel: arg, and the match on arg.len()
\* env::args() panics on an argument that is not valid Unicode, while
\* collect() iterates it and before arg exists
ParseArgs ==
    /\ main_pc = "start"
    /\ IF ~args_unicode
       THEN /\ Exit("panic")
            /\ UNCHANGED <<arg_len, enable_tls>>
       ELSE /\ arg_len' = take(argc, 3)
            /\ IF arg_len' = 1
               THEN /\ enable_tls' = FALSE
                    /\ main_pc' = "setup"
                    /\ UNCHANGED <<listener, conns, exit_by>>
               ELSE IF arg_len' = 3
               THEN /\ enable_tls' = TRUE
                    /\ main_pc' = "setup"
                    /\ UNCHANGED <<listener, conns, exit_by>>
               ELSE /\ Exit("panic")
                    /\ UNCHANGED enable_tls
    /\ UNCHANGED <<argc, args_unicode>>
    /\ UNCHANGED <<codecVars, sessionVars>>

\* load_certs, load_keys, keys.pop(), with_single_cert (TLS only) and
\* TcpListener::bind, each followed by `?`
SetupOutcomes(tls) == IF tls THEN {"ok", "tls_config", "bind"}
                             ELSE {"ok", "bind"}

Setup(outcome) ==
    /\ main_pc = "setup"
    /\ outcome \in SetupOutcomes(enable_tls)
    /\ IF outcome = "ok"
       THEN /\ listener' = "bound"
            /\ main_pc' = "accepting"
            /\ UNCHANGED <<conns, exit_by>>
       ELSE Exit("setup")
    /\ UNCHANGED <<argc, args_unicode, arg_len, enable_tls>>
    /\ UNCHANGED <<codecVars, sessionVars>>

\* listener.accept().await? for the next connection
Accept(i, ok) ==
    /\ main_pc = "accepting"
    /\ conns[i] = "none"
    /\ \A j \in Conns : j < i => conns[j] # "none"
    /\ IF ok
       THEN /\ conns' = [conns EXCEPT ![i] = "accepted"]
            /\ main_pc' = IF enable_tls THEN "handshaking" ELSE "readying"
            /\ UNCHANGED <<listener, exit_by>>
       ELSE Exit("accept")
    /\ UNCHANGED <<argc, args_unicode, arg_len, enable_tls>>
    /\ UNCHANGED <<codecVars, sessionVars>>

\* TLS loop: acceptor.accept(socket).await?, then split and the spawn of
\* tunnel_stream
Handshake(i, ok) ==
    /\ main_pc = "handshaking"
    /\ conns[i] = "accepted"
    /\ IF ok
       THEN /\ conns' = [conns EXCEPT ![i] = "running"]
            /\ main_pc' = "accepting"
            /\ UNCHANGED <<listener, exit_by>>
       ELSE Exit("handshake")
    /\ UNCHANGED <<argc, args_unicode, arg_len, enable_tls>>
    /\ UNCHANGED <<codecVars, sessionVars>>

\* plain loop: socket.writable().await?, then into_split and the spawn of
\* tunnel_stream
Ready(i, ok) ==
    /\ main_pc = "readying"
    /\ conns[i] = "accepted"
    /\ IF ok
       THEN /\ conns' = [conns EXCEPT ![i] = "running"]
            /\ main_pc' = "accepting"
            /\ UNCHANGED <<listener, exit_by>>
       ELSE Exit("ready")
    /\ UNCHANGED <<argc, args_unicode, arg_len, enable_tls>>
    /\ UNCHANGED <<codecVars, sessionVars>>

\* the tasks of one connection come to their end: tunnel_stream returned
\* Ok and every task it led to is over, or one of them failed (the spawned
\* block prints the error of tunnel_stream)
SessionEnd(i, how) ==
    /\ main_pc # "exited"
    /\ conns[i] = "running"
    /\ how \in {"completed", "failed"}
    /\ conns' = [conns EXCEPT ![i] = how]
    /\ UNCHANGED <<argc, args_unicode, arg_len, enable_tls, main_pc, listener, exit_by>>
    /\ UNCHANGED <<codecVars, sessionVars>>

\* app_main: signal::ctrl_c() completes first in the select!, tunnel() is
\* dropped and app_main returns; the select! may take this branch before
\* it has polled tunnel() at all, when no argument has been parsed yet
Interrupt ==
    /\ main_pc \in {"start", "setup", "accepting", "handshaking", "readying"}
    /\ Exit("interrupt")
    /\ UNCHANGED <<argc, args_unicode, arg_len, enable_tls>>
    /\ UNCHANGED <<codecVars, sessionVars>>

NextServer ==
    \/ ParseArgs
    \/ \E outcome \in {"ok", "tls_config", "bind"} : Setup(outcome)
    \/ \E i \in Conns, ok \in BOOLEAN : Accept(i, ok)
    \/ \E i \in Conns, ok \in BOOLEAN : Handshake(i, ok)
    \/ \E i \in Conns, ok \in BOOLEAN : Ready(i, ok)
    \/ \E i \in Conns, how \in {"completed", "failed"} : SessionEnd(i, how)
    \/ Interrupt
    \/ RuntimeDrop

SpecServer == InitServer /\ [][NextServer]_vars

(***************************************************************************)
(* The response table of the specification, as literal bytes.              *)
(***************************************************************************)
\* "HTTP/1.1 400 BAD_REQUEST\r\n\r\n"
Line400 == <<72, 84, 84, 80, 47, 49, 46, 49, 32, 52, 48, 48, 32,
             66, 65, 68, 95, 82, 69, 81, 85, 69, 83, 84, 13, 10, 13, 10>>
\* "HTTP/1.1 408 Timeout\r\n\r\n"
Line408 == <<72, 84, 84, 80, 47, 49, 46, 49, 32, 52, 48, 56, 32,
             84, 105, 109, 101, 111, 117, 116, 13, 10, 13, 10>>
\* "HTTP/1.1 500 SERVER_ERROR\r\n\r\n"
Line500 == <<72, 84, 84, 80, 47, 49, 46, 49, 32, 53, 48, 48, 32,
             83, 69, 82, 86, 69, 82, 95, 69, 82, 82, 79, 82, 13, 10, 13, 10>>

TableLine(outcome) ==
    CASE outcome = "Ok"          -> Line200
      [] outcome = "BadRequest"  -> Line400
      [] outcome = "Timeout"     -> Line408
      [] outcome = "ServerError" -> Line500

InTable(outcome) == outcome \in {"Ok", "BadRequest", "Timeout", "ServerError"}

IsPrefix(a, b) == Len(a) <= Len(b) /\ SubSeq(b, 1, Len(a)) = a

(***************************************************************************)
(* Claims about the session (Spec).                                        *)
(***************************************************************************)
Steps == <<"decode", "resolve", "connect", "respond", "relay">>
Completed(step) == \E i \in 1..Len(trace) : trace[i] = step
NoRelay ==
    /\ r1 = "none" /\ r2 = "none"
    /\ destRecv = <<>> /\ dread = 0
    /\ r1buf = <<>> /\ r2buf = <<>>

\* C1: the steps of a session complete in the order decode, resolve,
\* connect, response write, relay start, none skipped: resolve is under way
\* or done only with a decoded target, a connect only with a resolved
\* address, a status-line byte at the client (or an encoded response) only
\* after the connect attempt has ended, and a copy task or a relayed byte
\* only after the response write.
C1_StepOrder ==
    /\ IsPrefix(trace, Steps)
    /\ (pc = "resolving" \/ addr # NotResolved)
          => Completed("decode") /\ frame.kind = "Some" /\ url = frame.item
    /\ (pc = "connecting" \/ conn # "none" \/ stream # "none")
          => Completed("resolve") /\ addr.ok
    /\ (clientRecv # <<>> \/ response_buffer # <<>>)
          => Completed("connect") /\ conn # "none"
    /\ ~NoRelay => Completed("respond") /\ clientRecv # <<>>

\* a session that went through all five steps and relayed a byte
C1_Witness == trace = Steps /\ destRecv # <<>>

\* C3: after a failed connect whose response write was taken whole, the
\* session has no relay and the client holds the table's Timeout line,
\* HTTP/1.1 408 Timeout.
C3_ConnectErrorWrites408 ==
    (conn = "ConnectErr" /\ pc = "closed" /\ response_buffer = <<>>)
       => /\ clientRecv = Line408
          /\ stream = "none"
          /\ NoRelay

\* C4: once the session has ended after the connect deadline expired and
\* its write returned, the client holds the whole line HTTP/1.1 400
\* BAD_REQUEST, there is no outbound stream, and no relay was started.
C4_DeadlineWrites400 ==
    (conn = "Elapsed" /\ pc = "closed")
       => /\ clientRecv = Line400
          /\ stream = "none"
          /\ NoRelay

\* C5: a copy task exists, or a byte has gone to or come from the
\* destination, only when the connect ended in Ok with an outbound stream;
\* after any other outcome the session only responds and ends.
C5_RelayOnlyWhenConnected ==
    /\ ~NoRelay => conn = "Connected" /\ stream # "none"
    /\ pc \in {"writable", "relaying"} => conn = "Connected" /\ stream # "none"
    /\ conn \in {"ConnectErr", "Elapsed"}
          => NoRelay /\ stream = "none"
               /\ pc \in {"responding", "closed", "aborted"}

\* both copy tasks started on an established stream
C5_Witness ==
    r1 = "running" /\ r2 = "running" /\ conn = "Connected" /\ stream = "open"

DecodeFailed == pc \notin {"idle", "awaiting"} /\ frame.kind # "Some"
ResolveFailed == addr # NotResolved /\ ~addr.ok

\* C6: when decode fails (an error, a panic, or the client closing before a
\* frame) or resolve fails, the session has ended, no byte was written to
\* the client, and no outbound connect was attempted.
C6_FailureIsSilent ==
    (DecodeFailed \/ ResolveFailed)
       => /\ pc \in {"aborted", "panicked"}
          /\ clientRecv = <<>>
          /\ response_buffer = <<>>
          /\ conn = "none"
          /\ stream = "none"
          /\ NoRelay

\* an oversized frame ended the session
C6_Witness ==
    /\ pc = "aborted"
    /\ frame.kind = "ErrIO"
    /\ nread = MAX_HTTP_CONNECT_SIZE
    /\ clientRecv = <<>>

\* C7: while relaying, what the destination has received, followed by what
\* r1 has read and not yet written, is exactly the bytes the proxy read
\* from the client after the request frame, in order; and what the client
\* has received, followed by what r2 has read and not yet written, is what
\* was taken of the 200 line followed by exactly the bytes read from the
\* destination, in order.  While a direction is running and at rest with
\* its reader drained, everything its peer sent has been written.
C7_RelayIntegrity ==
    pc = "relaying"
       => /\ destRecv \o r1buf = SubSeq(ClientSent, cut + 1, nread)
          /\ clientRecv \o r2buf
               = SubSeq(Line200, 1, Len(Line200) - Len(response_buffer))
                   \o SubSeq(DestData, 1, dread)
          /\ (r1 = "done") => destRecv = SubSeq(ClientSent, cut + 1, nread)
          /\ (r2 = "done") => r2buf = <<>> /\ dread <= Len(DestData)

\* both peers' data relayed whole after a complete 200 line
C7_Witness ==
    /\ pc = "relaying"
    /\ destRecv = ClientPayload
    /\ clientRecv = Line200 \o DestData

\* the session has not got a frame yet, or ended without one
NoFrameYet ==
    pc = "awaiting" \/ (pc \in {"aborted", "panicked"} /\ trace = <<>>)

\* C9: a decode call on bytes that do not end in \r\n returns Ok(None) and
\* keeps every byte read so far in the buffer; whatever the chunks, the
\* target a session decodes is the target the whole request decodes to.
C9_IncrementalDecode ==
    /\ (NoFrameYet /\ frame # NotCalled
          /\ ~ends_with(SubSeq(Requests[req], 1, nread), CRLF))
         => /\ frame.kind = "None"
            /\ pc = "awaiting" => buffer = SubSeq(Requests[req], 1, nread)
    /\ (Completed("decode") /\ decode(Requests[req]).kind = "Some")
         => url = decode(Requests[req]).item

\* the target came out of the first chunks of a request with header lines
C9_Witness ==
    /\ req = 2
    /\ Completed("decode")
    /\ cut = Len(RequestLine)
    /\ url = HostPort

\* C15: while a session awaits its request, the raw bytes buffered for
\* decoding never exceed MAX_HTTP_CONNECT_SIZE, whatever the client sends.
C15_BufferBounded ==
    pc = "awaiting" => Len(buffer) <= MAX_HTTP_CONNECT_SIZE

\* C18: the destination receives bytes of the client's payload only: no
\* byte of the request line, of the header lines after it or of the blank
\* line, however the request is split across reads (stated for sessions
\* whose response write was taken whole).
C18_RequestNotForwarded ==
    response_buffer = <<>> => IsPrefix(destRecv, ClientPayload)

\* C19: after a successful connect the client's stream begins with the
\* whole 200 line: what the client holds is a part of the line, or the line
\* followed by the destination's bytes, and a byte of the destination is
\* there only after the line's last byte.
C19_StatusLineFirst ==
    conn = "Connected"
       => IsPrefix(clientRecv, Line200) \/ IsPrefix(Line200, clientRecv)

\* one direction has completed and the other has bytes left to copy
R1LeftR2Copying == Ended(r1) /\ r2 = "running" /\ DestAvail > 0
R2LeftR1Copying == Ended(r2) /\ r1 = "running" /\ ClientAvail > 0

\* C12: the two copy tasks are independent.  A step that completes one of
\* them leaves the other as it is, running if it was running, with its
\* stream open; a task completes only by its own end of file or fault; and
\* a task left running by the other's completion can still copy the bytes
\* its reader has.
C12_RelaysIndependent ==
    /\ [][ /\ (r1 = "running" /\ r1' # r1)
               => /\ r2' = r2 /\ dread' = dread /\ clientRecv' = clientRecv
                  /\ r2buf' = r2buf
                  /\ r2 = "running" => stream' = "open"
                  /\ r1' = "done" => clientEOF
           /\ (r2 = "running" /\ r2' # r2)
               => /\ r1' = r1 /\ nread' = nread /\ destRecv' = destRecv
                  /\ r1buf' = r1buf
                  /\ r1 = "running" => stream' = "open"
                  /\ r2' = "done" => destEOF ]_vars
    /\ [](R1LeftR2Copying => ENABLED R2Read(1))
    /\ [](R2LeftR1Copying => ENABLED R1Read(1))
    /\ []((Ended(r1) /\ r2 = "running" /\ r2buf # <<>>) => ENABLED R2Write(1))
    /\ []((Ended(r2) /\ r1 = "running" /\ r1buf # <<>>) => ENABLED R1Write(1))

\* r1 has failed and r2, still running, has copied all of the destination's
\* data since
C12_Witness ==
    /\ r1 = "failed"
    /\ r2 = "running"
    /\ destRecv = <<>>
    /\ clientRecv = Line200 \o DestData

(***************************************************************************)
(* Claims about the session under fairness (SpecLive).                     *)
(***************************************************************************)
\* C16: a session in Connecting always leaves it, for Responding and
\* nowhere else, and then makes its write; the connect attempt has one
\* outcome, which never changes, and the session never connects again; the
\* write offers exactly one encoded status line, and no status line is
\* encoded or written after it.
C16_ConnectingEnds ==
    /\ (pc = "connecting") ~> (pc = "responding")
    /\ (pc = "connecting") ~> (pc \notin {"connecting", "responding"})
    /\ [][ /\ pc = "connecting"
               => /\ conn = "none"
                  /\ pc' \in {"connecting", "responding"}
                  /\ pc' = "responding" => conn' \in ConnectOutcomes
           /\ conn # "none" => conn' = conn /\ pc' # "connecting"
           /\ pc = "responding"
               => /\ response_buffer = <<>> /\ clientRecv = <<>>
                  /\ pc' = "responding"
                       \/ clientRecv' \o response_buffer'
                            \in {Line200, Line400, Line408, Line500}
           /\ (conn # "none" /\ pc # "responding")
               => /\ response_buffer' = response_buffer
                  /\ pc' # "responding" ]_vars

\* a connect error answered with one status line, the session over
C16_Witness ==
    /\ conn = "ConnectErr"
    /\ pc = "closed"
    /\ Completed("respond")
    /\ response_buffer = <<>>

(***************************************************************************)
(* Claims about the process (SpecServer).                                  *)
(***************************************************************************)
\* C13: the interrupt closes the listener, and from the interrupt on no
\* step cancels a session in flight: a running session stays running or
\* comes to its own end.
C13_InterruptSparesSessions ==
    [][ exit_by' = "interrupt"
           => /\ listener' # "bound"
              /\ \A i \in Conns :
                    conns[i] = "running"
                       => conns'[i] \in {"running", "completed", "failed"} ]_vars

\* C14: once the arguments are parsed, one argument (of valid Unicode) has
\* selected plain mode, three have selected TLS mode, and with any other
\* number (0, 2, 4 or more) the process has ended in a panic with no
\* listening socket bound (stated for runs that no interrupt has ended).
C14_ArgumentCount ==
    (main_pc # "start" /\ exit_by # "interrupt")
       => /\ (argc = 1 /\ args_unicode) => ~enable_tls /\ exit_by # "panic"
          /\ (argc = 3 /\ args_unicode) => enable_tls /\ exit_by # "panic"
          /\ argc \notin {1, 3}
                => /\ main_pc \in {"returned", "exited"}
                   /\ exit_by = "panic"
                   /\ listener = "none"

\* C20: the failure of one accepted connection's TLS handshake or socket
\* readiness never ends the accept loop.
C20_AcceptLoopSurvives ==
    exit_by \notin {"handshake", "ready"}

(***************************************************************************)
(* Claims about encode (SpecEncode).                                       *)
(***************************************************************************)
\* C2: encoding outcomes of the response table appends exactly the table's
\* line of each: 200 OK, 400 BAD_REQUEST, 408 Timeout, 500 SERVER_ERROR.
C2_EncodeFollowsTable ==
    (\A i \in 1..Len(encodes) : InTable(encodes[i]))
       => dst = Flatten([i \in 1..Len(encodes) |-> TableLine(encodes[i])])

(***************************************************************************)
(* Claims about decode (SpecDecode).                                       *)
(***************************************************************************)
\* CONNECT host:port HTTP/1.1\r\n followed by header lines
WellFormed(sh) ==
    /\ sh.prefix = HTTP_CONNECT_START
    /\ has_port(sh.target)
    /\ utf8_valid(sh.target)
    /\ sh.ending = HTTP_CONNECT_END_CRLF
    /\ sh.tail = <<>>

\* C8, as stated: decode of every well-formed buffer returns host:port.
C8_WellFormedDecodes_AnySize ==
    (item # NotCalled /\ WellFormed(shape))
       => item.kind = "Some" /\ item.item = shape.target

\* C8, amended: decode of every well-formed buffer shorter than
\* MAX_HTTP_CONNECT_SIZE returns host:port.
C8_WellFormedDecodes ==
    (item # NotCalled /\ WellFormed(shape)
       /\ Len(BytesOf(shape)) < MAX_HTTP_CONNECT_SIZE)
       => item.kind = "Some" /\ item.item = shape.target /\ src = BytesOf(shape)

\* a request with header lines, one byte below the bound, decoded
C8_Witness ==
    /\ WellFormed(shape)
    /\ shape.headers # <<>>
    /\ Len(src) = MAX_HTTP_CONNECT_SIZE - 1
    /\ item.kind = "Some"
    /\ item.item = HostPort

\* C10: decode of every buffer of MAX_HTTP_CONNECT_SIZE bytes or more fails
\* with an invalid-data error.
C10_OversizedFails ==
    (item # NotCalled /\ Len(BytesOf(shape)) >= MAX_HTTP_CONNECT_SIZE)
       => item.kind = "ErrIO"

\* the bytes t occur somewhere in b
Contains(b, t) ==
    \E i \in 0..(Len(b) - Len(t)) : SubSeq(b, i + 1, i + Len(t)) = t

\* a buffer that ends in \r\n and is shorter than MAX_HTTP_CONNECT_SIZE
TerminatedBelowBound(b) ==
    /\ Len(b) >= Len(CRLF)
    /\ SubSeq(b, Len(b) - Len(CRLF) + 1, Len(b)) = CRLF
    /\ Len(b) < MAX_HTTP_CONNECT_SIZE

\* C11: decode of every terminated buffer below the size bound that does not
\* begin with the 8 bytes "CONNECT " or does not contain " HTTP/1.1\r\n"
\* fails with the invalid-data error and returns no target.
C11_MalformedFails ==
    (item # NotCalled /\ TerminatedBelowBound(BytesOf(shape))
       /\ (~IsPrefix(HTTP_CONNECT_START, BytesOf(shape))
             \/ ~Contains(BytesOf(shape), HTTP_CONNECT_END_CRLF)))
       => item.kind = "ErrIO" /\ item.item = <<>>

\* "CONNEC a:1 HTTP/1.1\r\n" refused
C11_Witness ==
    /\ item.kind = "ErrIO"
    /\ src = ConnecSp \o HostPort \o HTTP_CONNECT_END_CRLF

\* C17: decode is total: every call returns Ok(None), Ok(Some(target)) or
\* an error, and none panics.
C17_DecodeTotal ==
    item # NotCalled => item.kind \in {"None", "Some", "ErrIO", "ErrUTF8"}

=============================================================================
